---- MODULE Spec2Model ----
(***************************************************************************)
(* Dataset Capture Portal (src/main.py).                                   *)
(*                                                                         *)
(* The Streamlit script is executed top to bottom once per user            *)
(* interaction of a browser session.  The model keeps, per browser        *)
(* session, the widget values (text input, camera input), the dictionary   *)
(* st.session_state, the position of the running script and the messages   *)
(* the run has displayed; shared by all sessions are the dataset folder on *)
(* disk and the wall clock that stamps the file names.                     *)
(*                                                                         *)
(* Strings that the program transforms (names, person keys) are sequences  *)
(* of one-character strings; coordinates are hundredths of the image       *)
(* width.                                                                  *)
(***************************************************************************)
EXTENDS Integers, Sequences, FiniteSets, TLC

VARIABLES
  text,      \* per session: the value of st.text_input, new_name (line 120)
  cam,       \* per session: the photo st.camera_input holds (line 140),
             \* <<>> for None, <<frame>> otherwise
  camOn,     \* per session: the last run has drawn the enabled camera widget
  camSaved,  \* per session: the photo the camera widget holds has been
             \* written to the folder by an earlier or the current run (history)
  ss,        \* per session: st.session_state (lines 113-127, 52)
  pc,        \* per session: where its script run stands: "idle" (no run),
             \* "step2" (before line 131), "save" (before line 48)
  loc,       \* per session: photo_count, the local of line 47, during a save
  msgs,      \* per session: what the current or last run has displayed
  accepted,  \* per session: frames saved since line 124 last ran (history)
  folders,   \* the person folders under dataset/ (lines 33-41)
  files,     \* the files in them (line 51)
  now        \* datetime.now(), in seconds (line 48)

vars ==
  <<text, cam, camOn, camSaved, ss, pc, loc, msgs, accepted, folders, files, now>>

----------------------------------------------------------------------------
(* Bounds of the model *)

\* most files the dataset folder holds before further saves are cut off
MaxFiles == 7
\* last second of the wall clock
MaxTime == 1

----------------------------------------------------------------------------
(* Configuration, src/main.py:15-17 *)

MAX_PHOTOS_PER_PERSON == 6
\* MAX_SIDE_OFFSET = 0.35, in hundredths
MAX_SIDE_OFFSET == 35

\* the browser sessions; Spec runs the first one alone
Sessions == {"s1", "s2"}

\* the value "" that line 116 stores under 'photo_count'
EmptyStr == -1

\* what the user can type into "Enter Full Name"
NameInputs == { <<>>, <<"a">>, <<"A">>, <<" ", "a">> }

\* what the camera can deliver: the scene and the landmarks 33, 263 and 1
\* of the first face in it (x coordinates, hundredths)
Frames ==
  { [people |-> 0, lx |-> 0,  rx |-> 0,  nx |-> 0],
    [people |-> 1, lx |-> 30, rx |-> 70, nx |-> 50],
    [people |-> 1, lx |-> 30, rx |-> 70, nx |-> 70],
    [people |-> 1, lx |-> 50, rx |-> 50, nx |-> 50],
    [people |-> 2, lx |-> 30, rx |-> 70, nx |-> 50] }

----------------------------------------------------------------------------
(* str.replace(" ", "_"), str.strip(), str.lower() *)

Replace(s) == [i \in 1..Len(s) |-> IF s[i] = " " THEN "_" ELSE s[i]]

Whitespace == {" ", "\t", "\n"}

RECURSIVE LStrip(_)
LStrip(s) == IF s # <<>> /\ Head(s) \in Whitespace THEN LStrip(Tail(s)) ELSE s

RECURSIVE RStrip(_)
RStrip(s) ==
  IF s # <<>> /\ s[Len(s)] \in Whitespace
    THEN RStrip(SubSeq(s, 1, Len(s) - 1))
    ELSE s

Strip(s) == RStrip(LStrip(s))

LowerChar(c) == IF c = "A" THEN "a" ELSE IF c = "B" THEN "b" ELSE c

Lower(s) == [i \in 1..Len(s) |-> LowerChar(s[i])]

\* create_folder, line 37
SafeName(name) == Lower(Strip(Replace(name)))

Abs(x) == IF x < 0 THEN -x ELSE x

----------------------------------------------------------------------------
(* The dataset folder.  A file is [dir, key, seq, ts, ext]: it lies in     *)
(* folder dataset/<dir> and is named <key>_<seq:02d>_<ts>.<ext>.           *)

\* os.listdir(person_folder) filtered by f.endswith('.jpg'), line 46
JpgFiles(fs, dir) == {f \in fs : f.dir = dir /\ f.ext = "jpg"}

\* lines 47-50: the file save_image_locally is about to write
NewFile(person_name, photo_count, timestamp) ==
  [dir |-> person_name, key |-> person_name, seq |-> photo_count,
   ts |-> timestamp, ext |-> "jpg"]

----------------------------------------------------------------------------
(* The landmark detector and the pose check *)

\* FACE_MESH.process with max_num_faces=1, lines 21-26 and 147-151: the
\* landmarks of at most one face
Detect(frame) ==
  IF frame.people = 0
    THEN <<>>
    ELSE << [lx |-> frame.lx, rx |-> frame.rx, nx |-> frame.nx] >>

\* check_side_angle, lines 55-67.  Coordinates are c/100:
\*   offset_ratio = |nx - (lx + rx)/2| / |lx - rx|
\*                = |2 nx - lx - rx| / (2 |lx - rx|)
\* and the division raises ZeroDivisionError when lx = rx.
ZeroDivision(lm) == lm.lx = lm.rx

\* line 67 with < in place of <=
check_side_angle_Strict(lm) ==
  100 * Abs(2 * lm.nx - lm.lx - lm.rx) < MAX_SIDE_OFFSET * 2 * Abs(lm.lx - lm.rx)

check_side_angle(lm) ==
  100 * Abs(2 * lm.nx - lm.lx - lm.rx) <= MAX_SIDE_OFFSET * 2 * Abs(lm.lx - lm.rx)

----------------------------------------------------------------------------
(* Initial state: the dataset folder is empty and each new browser session *)
(* has run the script once with an empty name (lines 113-116, 131,         *)
(* 173-174).                                                               *)

InitSession ==
  [person_name |-> <<>>, photo_count |-> EmptyStr,
   person_safe_name |-> <<>>, last_name |-> <<>>]

Init ==
  /\ text = [s \in Sessions |-> <<>>]
  /\ cam = [s \in Sessions |-> <<>>]
  /\ camOn = [s \in Sessions |-> FALSE]
  /\ camSaved = [s \in Sessions |-> FALSE]
  /\ ss = [s \in Sessions |-> InitSession]
  /\ pc = [s \in Sessions |-> "idle"]
  /\ loc = [s \in Sessions |-> 0]
  /\ msgs = [s \in Sessions |-> {"enter_name"}]
  /\ accepted = [s \in Sessions |-> 0]
  /\ folders = {}
  /\ files = {}
  /\ now = 0

----------------------------------------------------------------------------
(* STEP 1, lines 118-128 *)

\* line 122 without the test for an empty name
IdentifyFires_OnEmptyName(st, new_name) == new_name # st.last_name

\* line 122 without the test against the last submitted name
IdentifyFires_OnEveryRun(st, new_name) == new_name # <<>>

\* line 122
IdentifyFires(st, new_name) == new_name # <<>> /\ new_name # st.last_name

\* lines 123-127 without line 124
IdentifyBlock_KeepsCount(st, new_name) ==
  IF new_name # <<>> /\ new_name # st.last_name
    THEN [person_name |-> new_name, photo_count |-> st.photo_count,
          person_safe_name |-> SafeName(new_name), last_name |-> new_name]
    ELSE st

\* lines 122-127 with an empty name clearing the session fields
IdentifyBlock_ClearsOnEmpty(st, new_name) ==
  IF new_name = <<>>
    THEN [person_name |-> <<>>, photo_count |-> EmptyStr,
          person_safe_name |-> <<>>, last_name |-> <<>>]
    ELSE IF new_name # st.last_name
      THEN [person_name |-> new_name, photo_count |-> 0,
            person_safe_name |-> SafeName(new_name), last_name |-> new_name]
      ELSE st

\* lines 123-127 with line 124 run only for a name that was identified before
IdentifyBlock_NoFirstCount(st, new_name) ==
  IF new_name # <<>> /\ new_name # st.last_name
    THEN [person_name |-> new_name,
          photo_count |-> IF st.person_name = <<>> THEN st.photo_count ELSE 0,
          person_safe_name |-> SafeName(new_name), last_name |-> new_name]
    ELSE st

\* lines 123-127
IdentifyBlock(st, new_name) ==
  IF IdentifyFires(st, new_name)
    THEN [person_name |-> new_name, photo_count |-> 0,
          person_safe_name |-> SafeName(new_name), last_name |-> new_name]
    ELSE st

\* what the user can leave in the camera widget (line 140): the photo it
\* holds, nothing ("Clear photo"), or a new photo when the last run has drawn
\* the enabled widget and it holds none
CamInputs(s, frames) ==
  IF cam[s] # <<>> THEN {cam[s], <<>>}
  ELSE IF camOn[s] THEN {<<>>} \cup {<<f>> : f \in frames}
  ELSE {<<>>}

NumJpg == Cardinality({f \in files : f.ext = "jpg"})

\* A user interaction changes one widget (or none: a redraw) to leave name t
\* in the text input and c in the camera input, and starts a run of the
\* script, which executes lines 113-128.
Rerun(s, t, c) ==
  /\ pc[s] = "idle"
  /\ t = text[s] \/ c = cam[s]
  /\ text' = [text EXCEPT ![s] = t]
  /\ cam' = [cam EXCEPT ![s] = c]
  /\ camSaved' = [camSaved EXCEPT ![s] = IF c = cam[s] THEN @ ELSE FALSE]
  /\ ss' = [ss EXCEPT ![s] = IdentifyBlock(ss[s], t)]
  /\ folders' = IF IdentifyFires(ss[s], t)
                  THEN folders \cup {SafeName(t)}
                  ELSE folders
  /\ msgs' = [msgs EXCEPT ![s] =
                IF IdentifyFires(ss[s], t) THEN {"ready"} ELSE {}]
  /\ accepted' = [accepted EXCEPT ![s] =
                    IF IdentifyFires(ss[s], t) THEN 0 ELSE @]
  /\ pc' = [pc EXCEPT ![s] = "step2"]
  /\ UNCHANGED <<camOn, loc, files, now>>

----------------------------------------------------------------------------
(* STEP 2, lines 130-174 *)

\* lines 131-174 with line 135 as count > MAX_PHOTOS_PER_PERSON
Step2Branch_QuotaOffByOne(st, c) ==
  IF st.person_name = <<>> THEN "enter_name"
  ELSE IF st.photo_count = EmptyStr THEN "type_error"
  ELSE IF st.photo_count > MAX_PHOTOS_PER_PERSON THEN "completed"
  ELSE IF c = <<>> THEN "await"
  ELSE IF Detect(c[1]) = <<>> THEN "noface"
  ELSE IF ZeroDivision(Detect(c[1])[1]) THEN "zero_division"
  ELSE IF ~check_side_angle(Detect(c[1])[1]) THEN "sideways"
  ELSE "landmarks_ok"

\* lines 131-174 with the result of check_side_angle ignored at line 154
Step2Branch_PoseIgnored(st, c) ==
  IF st.person_name = <<>> THEN "enter_name"
  ELSE IF st.photo_count = EmptyStr THEN "type_error"
  ELSE IF st.photo_count >= MAX_PHOTOS_PER_PERSON THEN "completed"
  ELSE IF c = <<>> THEN "await"
  ELSE IF Detect(c[1]) = <<>> THEN "noface"
  ELSE IF ZeroDivision(Detect(c[1])[1]) THEN "zero_division"
  ELSE "landmarks_ok"

\* the branch of lines 131-174 a run takes
Step2Branch(st, c) ==
  IF st.person_name = <<>> THEN "enter_name"
  ELSE IF st.photo_count = EmptyStr THEN "type_error"
  ELSE IF st.photo_count >= MAX_PHOTOS_PER_PERSON THEN "completed"
  ELSE IF c = <<>> THEN "await"
  ELSE IF Detect(c[1]) = <<>> THEN "noface"
  ELSE IF ZeroDivision(Detect(c[1])[1]) THEN "zero_division"
  ELSE IF ~check_side_angle(Detect(c[1])[1]) THEN "sideways"
  ELSE "landmarks_ok"

\* the message each branch displays
BranchMsgs(b) ==
  CASE b = "enter_name" -> {"enter_name"}
    [] b = "type_error" -> {"exception"}
    [] b = "completed" -> {"completed"}
    [] b = "await" -> {}
    [] b = "noface" -> {"noface"}
    [] b = "zero_division" -> {"exception"}
    [] b = "sideways" -> {"sideways"}
    [] b = "landmarks_ok" -> {"landmarks_ok"}

\* the branches that draw the enabled "Capture Image" widget (line 140)
DrawsCamera(b) == b \notin {"enter_name", "type_error", "completed"}

\* photo_count taken from the session counter instead of the listing
PhotoCount_FromSession(fs, st) == st.photo_count + 1

\* lines 163 and 46-47: photo_count, from the listing of the person's folder
PhotoCount(fs, st) == Cardinality(JpgFiles(fs, st.person_safe_name)) + 1

\* Lines 131-160 and, for an accepted frame, lines 163-164 and 45-47: the
\* run lists the folder and computes photo_count.
Step2(s) ==
  /\ pc[s] = "step2"
  /\ LET b == Step2Branch(ss[s], cam[s]) IN
       /\ msgs' = [msgs EXCEPT ![s] = @ \cup BranchMsgs(b)]
       /\ camOn' = [camOn EXCEPT ![s] = DrawsCamera(b)]
       /\ cam' = [cam EXCEPT ![s] = IF DrawsCamera(b) THEN @ ELSE <<>>]
       /\ camSaved' = [camSaved EXCEPT ![s] = IF DrawsCamera(b) THEN @ ELSE FALSE]
       /\ IF b = "landmarks_ok"
            THEN /\ loc' = [loc EXCEPT ![s] = PhotoCount(files, ss[s])]
                 /\ pc' = [pc EXCEPT ![s] = "save"]
            ELSE /\ loc' = loc
                 /\ pc' = [pc EXCEPT ![s] = "idle"]
  /\ UNCHANGED <<text, ss, accepted, folders, files, now>>

\* what the storage does to one save: the local write fails, the local
\* write succeeds and the upload fails, or both succeed
SaveOutcomes == {"write_error", "upload_error", "uploaded"}

\* line 52 moved before line 51
SessionAfterSave_CountFirst(st, photo_count, o) ==
  [st EXCEPT !.photo_count = photo_count]

\* line 52 as an increment of the session counter
SessionAfterSave_Increment(st, photo_count, o) ==
  IF o = "write_error" THEN st ELSE [st EXCEPT !.photo_count = @ + 1]

\* session_state after save_image_locally: line 51 raises before line 52
\* stores photo_count when the write fails
SessionAfterSave(st, photo_count, o) ==
  IF o = "write_error" THEN st ELSE [st EXCEPT !.photo_count = photo_count]

\* the folder after line 51
FilesAfterSave(fs, st, photo_count, timestamp, o) ==
  IF o = "write_error"
    THEN fs
    ELSE fs \cup {NewFile(st.person_safe_name, photo_count, timestamp)}

\* lines 51 and 167-171: an uncaught exception of the write, or the result
\* of the upload
SaveMsgs(o) == IF o = "write_error" THEN {"exception"} ELSE {o}

\* Lines 48-53 and 166-171: the run writes the file, stores photo_count
\* in the session and uploads the image.
Save(s) ==
  /\ pc[s] = "save"
  /\ \E o \in SaveOutcomes :
       /\ files' = FilesAfterSave(files, ss[s], loc[s], now, o)
       /\ ss' = [ss EXCEPT ![s] = SessionAfterSave(@, loc[s], o)]
       /\ msgs' = [msgs EXCEPT ![s] = @ \cup SaveMsgs(o)]
       /\ accepted' = [accepted EXCEPT ![s] =
                         IF o = "write_error" THEN @ ELSE @ + 1]
       /\ camSaved' = [camSaved EXCEPT ![s] =
                         IF o = "write_error" THEN @ ELSE TRUE]
  /\ pc' = [pc EXCEPT ![s] = "idle"]
  /\ loc' = [loc EXCEPT ![s] = 0]
  /\ UNCHANGED <<text, cam, camOn, folders, now>>

\* datetime.now() advances
Tick ==
  /\ now < MaxTime
  /\ now' = now + 1
  /\ UNCHANGED <<text, cam, camOn, camSaved, ss, pc, loc, msgs, accepted,
               folders, files>>

----------------------------------------------------------------------------
(* One browser session *)

UserRerun(s) ==
  \E t \in NameInputs, c \in CamInputs(s, Frames) :
    /\ c = <<>> \/ NumJpg < MaxFiles
    /\ Rerun(s, t, c)

Next == Tick \/ UserRerun("s1") \/ Step2("s1") \/ Save("s1")

Spec == Init /\ [][Next]_vars

(* Two browser sessions whose runs interleave; both users photograph the   *)
(* same person, looking straight into the camera.                          *)

ConcMaxFiles == 3

ConcNames == { <<>>, <<"a">> }

ConcFrames == { f \in Frames : f.people = 1 /\ f.nx = 50 /\ f.lx = 30 }

ConcRerun(s) ==
  \E t \in ConcNames, c \in CamInputs(s, ConcFrames) :
    /\ c = <<>> \/ NumJpg < ConcMaxFiles
    /\ Rerun(s, t, c)

NextConc == Tick \/ \E s \in Sessions : ConcRerun(s) \/ Step2(s) \/ Save(s)

SpecConc == Init /\ [][NextConc]_vars

(* The pose check on a grid of landmark positions: a session that has just *)
(* been identified as "a" runs STEP 2 on a photo of one person.            *)

PoseFrames ==
  { [people |-> 1, lx |-> 10 * i, rx |-> 10 * j, nx |-> 2 * k] :
      i \in 0..10, j \in 0..10, k \in 0..50 }

InitPose ==
  /\ text = [s \in Sessions |-> IF s = "s1" THEN <<"a">> ELSE <<>>]
  /\ \E f \in PoseFrames :
       cam = [s \in Sessions |-> IF s = "s1" THEN <<f>> ELSE <<>>]
  /\ camOn = [s \in Sessions |-> s = "s1"]
  /\ camSaved = [s \in Sessions |-> FALSE]
  /\ ss = [s \in Sessions |->
             IF s = "s1" THEN IdentifyBlock(InitSession, <<"a">>) ELSE InitSession]
  /\ pc = [s \in Sessions |-> IF s = "s1" THEN "step2" ELSE "idle"]
  /\ loc = [s \in Sessions |-> 0]
  /\ msgs = [s \in Sessions |-> IF s = "s1" THEN {} ELSE {"enter_name"}]
  /\ accepted = [s \in Sessions |-> 0]
  /\ folders = {SafeName(<<"a">>)}
  /\ files = {}
  /\ now = 0

NextPose == Step2("s1") \/ Save("s1")

SpecPose == InitPose /\ [][NextPose]_vars

----------------------------------------------------------------------------
(* The states of a capture session (spec section 4.2) *)

Identified(s) == ss[s].person_name # <<>>

Capturing(s) == Identified(s) /\ ss[s].photo_count < MAX_PHOTOS_PER_PERSON

Complete(s) == Identified(s) /\ ss[s].photo_count >= MAX_PHOTOS_PER_PERSON

\* the step is the write of an accepted frame by session s
Saves(s) == pc[s] = "save" /\ accepted'[s] = accepted[s] + 1

\* the step is the start of a run of session s
Starts(s) == pc[s] = "idle" /\ pc'[s] = "step2"

----------------------------------------------------------------------------
(* Claims *)

\* C1: a session that has accepted 6 captures since it was identified has
\* counter 6 and is Complete; the capture branch of any further run is the
\* disabled one ("completed"), and as long as the session is not identified
\* anew the counter stays 6 and no file is added.
C1_SixCapturesComplete ==
  [][\A s \in Sessions :
       accepted[s] = MAX_PHOTOS_PER_PERSON =>
         /\ ss[s].photo_count = MAX_PHOTOS_PER_PERSON
         /\ Complete(s)
         /\ pc[s] # "save"
         /\ pc[s] = "step2" => Step2Branch(ss[s], cam[s]) = "completed"
         /\ pc[s] = "step2" /\ pc'[s] # "step2" =>
              /\ pc'[s] = "idle" /\ "completed" \in msgs'[s]
              /\ ~camOn'[s] /\ cam'[s] = <<>>
         /\ accepted'[s] = MAX_PHOTOS_PER_PERSON =>
              /\ ss'[s].photo_count = MAX_PHOTOS_PER_PERSON
              /\ files' = files]_vars

C1_Witness ==
  \E s \in Sessions :
    /\ accepted[s] = MAX_PHOTOS_PER_PERSON
    /\ ss[s].photo_count = MAX_PHOTOS_PER_PERSON
    /\ "completed" \in msgs[s]
    /\ ~camOn[s]
    /\ pc[s] = "idle"

\* C2 (as claimed): every accepted capture raises the session counter by
\* exactly 1.
C2_IncrementByOne ==
  [][\A s \in Sessions :
       Saves(s) => ss'[s].photo_count = ss[s].photo_count + 1]_vars

\* C3 (as claimed): with a person identified the counter is between 0 and
\* the quota.
C3_CounterWithinQuota ==
  \A s \in Sessions :
    Identified(s) =>
      /\ 0 <= ss[s].photo_count
      /\ ss[s].photo_count <= MAX_PHOTOS_PER_PERSON

\* the step is the end of the save of session s
EndsSave(s) == pc[s] = "save" /\ pc'[s] = "idle"

\* the .jpg files of the folder of session s's person key
FolderJpg(fs, s) ==
  {f \in fs : f.dir = ss[s].person_safe_name /\ f.ext = "jpg"}

Rejected(c) ==
  /\ c # <<>>
  /\ \/ c[1].people = 0
     \/ /\ c[1].lx # c[1].rx
        /\ 100 * Abs(2 * c[1].nx - c[1].lx - c[1].rx)
             > 2 * MAX_SIDE_OFFSET * Abs(c[1].lx - c[1].rx)

\* C5: the capture step of a Capturing session on a photo with no face or
\* with a failed pose check ends the run with a warning and leaves the
\* session, the folders and the files unchanged, the session Capturing.
C5_RejectedFrameNoEffect ==
  [][\A s \in Sessions :
       pc[s] = "step2" /\ pc'[s] # "step2" /\ Capturing(s) /\ Rejected(cam[s]) =>
         /\ pc'[s] = "idle"
         /\ msgs'[s] \cap {"noface", "sideways"} # {}
         /\ ss'[s] = ss[s]
         /\ files' = files
         /\ folders' = folders
         /\ Capturing(s)']_vars

C5_Witness ==
  \E s \in Sessions :
    /\ pc[s] = "idle"
    /\ "sideways" \in msgs[s]
    /\ ss[s].photo_count = 3
    /\ Cardinality(FolderJpg(files, s)) = 3

\* C6: a step of a Complete session adds no file and changes no counter,
\* except the start of a run whose name is non-empty and differs from the
\* last submitted one: nothing else leaves Complete.
C6_CompleteOnlyLeftByIdentify ==
  [][\A s \in Sessions :
       Complete(s) =>
         /\ files' = files
         /\ \/ ss'[s] = ss[s]
            \/ /\ Starts(s)
               /\ text'[s] # <<>>
               /\ text'[s] # ss[s].last_name
               /\ ss'[s].photo_count = 0]_vars

C6_Witness ==
  \E s \in Sessions :
    /\ Complete(s)
    /\ pc[s] = "idle"
    /\ "completed" \in msgs[s]
    /\ text[s] = <<>>
    /\ cam[s] = <<>>

C9_FreshFilename ==
  [][\A s \in Sessions :
       Saves(s) =>
         \E f \in files' :
           /\ f \notin files
           /\ files' = files \cup {f}
           /\ f.dir = ss[s].person_safe_name
           /\ f.key = ss[s].person_safe_name
           /\ f.ext = "jpg"
           /\ f.seq = Cardinality(FolderJpg(files, s)) + 1
           /\ \A g \in FolderJpg(files, s) : g.seq # f.seq]_vars

C9_Witness ==
  \E s \in Sessions :
    /\ pc[s] = "idle"
    /\ accepted[s] = 1
    /\ ss[s].photo_count = 4
    /\ \E f \in FolderJpg(files, s) : f.seq = 4 /\ f.ts = 1
    /\ \E f \in FolderJpg(files, s) : f.seq = 3 /\ f.ts = 0

\* C10 (as claimed): of two sessions that capture for the same person key,
\* no two are about to write the same sequence number, and every save of an
\* accepted frame raises the number of .jpg files of the folder by one.
C10_SavesSerialized ==
  [][/\ \A s, t \in Sessions :
          /\ s # t
          /\ pc[s] = "save" /\ pc[t] = "save"
          /\ ss[s].person_safe_name = ss[t].person_safe_name
          => loc[s] # loc[t]
     /\ \A s \in Sessions :
          Saves(s) =>
            Cardinality(FolderJpg(files', s)) = Cardinality(FolderJpg(files, s)) + 1]_vars

\* C11 (as claimed): every save of an accepted frame adds exactly one file,
\* and no run saves a photo that a run has saved before.
C11_SavedExactlyOnce ==
  [][\A s \in Sessions :
       Saves(s) =>
         /\ Cardinality(files') = Cardinality(files) + 1
         /\ ~camSaved[s]]_vars

\* the step is the capture step of a Capturing session s on a held photo
Captures(s) ==
  pc[s] = "step2" /\ pc'[s] # "step2" /\ Capturing(s) /\ cam[s] # <<>>

\* C12 (as claimed): a photo whose face has equal left-eye and right-eye x
\* is an ordinary rejection: the run ends with a warning and no exception,
\* the session unchanged and Capturing.
C12_EqualEyesRejected ==
  [][\A s \in Sessions :
       Captures(s) /\ cam[s][1].people >= 1 /\ cam[s][1].lx = cam[s][1].rx =>
         /\ pc'[s] = "idle"
         /\ "exception" \notin msgs'[s]
         /\ msgs'[s] \cap {"noface", "sideways"} # {}
         /\ ss'[s] = ss[s]
         /\ Capturing(s)']_vars

C14_SeveralFacesRejected ==
  [][\A s \in Sessions :
       Captures(s) /\ cam[s][1].people > 1 =>
         /\ pc'[s] = "idle"
         /\ msgs'[s] \cap {"landmarks_ok", "sideways", "exception"} = {}
         /\ ss'[s] = ss[s]]_vars

\* C15: for a photo of one face with distinct eye x coordinates the capture
\* step accepts the pose (and goes on to the save) exactly when
\* |nx - (lx + rx)/2| / |lx - rx| <= 35/100, and warns "sideways" otherwise;
\* a ratio equal to the threshold is accepted.
C15_InclusiveThreshold ==
  [][\A s \in Sessions :
       Captures(s) /\ cam[s][1].people = 1 /\ cam[s][1].lx # cam[s][1].rx =>
         LET f == cam[s][1]
             num == Abs(2 * f.nx - (f.lx + f.rx))
             den == 2 * Abs(f.lx - f.rx)
         IN  /\ pc'[s] = "save" <=> 100 * num <= MAX_SIDE_OFFSET * den
             /\ "landmarks_ok" \in msgs'[s] <=> 100 * num <= MAX_SIDE_OFFSET * den
             /\ "sideways" \in msgs'[s] <=> 100 * num > MAX_SIDE_OFFSET * den]_vars

C15_Witness ==
  \E s \in Sessions :
    /\ pc[s] = "save"
    /\ cam[s] = << [people |-> 1, lx |-> 30, rx |-> 70, nx |-> 64] >>
    /\ "landmarks_ok" \in msgs[s]

\* C16 (as claimed): the person key of an identified session is its name
\* trimmed of surrounding whitespace, lowercased, each remaining space
\* replaced by an underscore.
C16_KeyIsTrimmedName ==
  \A s \in Sessions :
    Identified(s) =>
      ss[s].person_safe_name = Replace(Lower(Strip(ss[s].person_name)))

\* C17 (as claimed): a run started with a name whose person key is the
\* session's person key leaves the counter as it is.
C17_SameKeyKeepsCounter ==
  [][\A s \in Sessions :
       /\ Starts(s) /\ Identified(s) /\ text'[s] # <<>>
       /\ SafeName(text'[s]) = ss[s].person_safe_name
       => ss'[s].photo_count = ss[s].photo_count]_vars

\* C18: right after every save of an accepted frame the counter is the
\* number of .jpg files in the folder of the person key; a session that was
\* identified and has saved nothing since has counter 0.
C18_CounterIsFolderCount ==
  [][\A s \in Sessions :
       /\ Saves(s) =>
            ss'[s].photo_count = Cardinality(FolderJpg(files', s))
       /\ Identified(s) /\ accepted[s] = 0 => ss[s].photo_count = 0
       /\ Identified(s)' /\ accepted'[s] = 0 => ss'[s].photo_count = 0]_vars

C18_Witness ==
  \E s \in Sessions :
    /\ pc[s] = "idle"
    /\ accepted[s] = 2
    /\ ss[s].photo_count = 5
    /\ Cardinality(FolderJpg(files, s)) = 5
    /\ msgs[s] = {"landmarks_ok", "uploaded"}

\* C19: a session with no person identified reaches no capture step and no
\* save, and no step of it adds a file; a session with a person identified
\* has an integer counter >= 0, never the "" of line 116, so that line 135
\* never compares "" with the quota.
C19_CounterIsInteger ==
  [][\A s \in Sessions :
       /\ ~Identified(s) =>
            /\ pc[s] # "save"
            /\ pc[s] = "step2" => Step2Branch(ss[s], cam[s]) = "enter_name"
            /\ cam[s] = <<>>
            /\ pc'[s] # pc[s] => files' = files
       /\ Identified(s) =>
            /\ ss[s].photo_count # EmptyStr
            /\ ss[s].photo_count >= 0
            /\ pc[s] = "step2" => Step2Branch(ss[s], cam[s]) # "type_error"
       /\ Identified(s)' =>
            /\ ss'[s].photo_count # EmptyStr
            /\ ss'[s].photo_count >= 0]_vars

C19_Witness ==
  \E s \in Sessions :
    /\ pc[s] = "idle"
    /\ Identified(s)
    /\ ss[s].photo_count = 0
    /\ msgs[s] = {"ready"}
    /\ camOn[s]
    /\ files = {}

====
